---- MODULE Spec2Model ----
(***************************************************************************)
(* alive_progress/animations/spinner_compiler.py: the spinner compiler     *)
(* controller (builders), the extra commands, the compiler, the runner     *)
(* factory, the runner's generators, check() and animate(); and            *)
(* alive_progress/utils/terminal.py: the escape sequence emitters.         *)
(***************************************************************************)
EXTENDS Integers, Sequences, FiniteSets, TLC

VARIABLES
    dicts,      \* heap of the extra_commands dict objects the builders refer to
    builders,   \* every compiler_dispatcher returned so far, in creation order
    raised,     \* the exception the last call raised ("none" when it returned)
    runner,     \* what the last compiler_dispatcher() call produced
    cycle_gen,  \* position of the runner's cycle_gen generator
    gens,       \* the generators returned by spinner_runner() so far
    cmd_spec,   \* the spec apply_extra_commands is working on
    applied,    \* the commands apply_extra_commands has run on cmd_spec so far
    console     \* the terminal, and where the last check() or animate() call is

vars == <<dicts, builders, raised, runner, cycle_gen, gens, cmd_spec, applied, console>>

\* ------------------------------------------------------------------ bounds
MaxBuilders == 3
MaxGens == 4
MaxApply == 2

\* ------------------------------------------------------------- python bits
Max(a, b) == IF a >= b THEN a ELSE b
Min(a, b) == IF a <= b THEN a ELSE b

RECURSIVE SumSeq(_)
SumSeq(s) == IF s = <<>> THEN 0 ELSE Head(s) + SumSeq(Tail(s))

RECURSIVE Flatten(_)
Flatten(ss) == IF ss = <<>> THEN <<>> ELSE Head(ss) \o Flatten(Tail(ss))

RECURSIVE Repeat(_, _)
Repeat(x, n) == IF n <= 0 THEN <<>> ELSE <<x>> \o Repeat(x, n - 1)

Reverse(s) == [i \in 1..Len(s) |-> s[Len(s) + 1 - i]]

\* a positional argument, or <<>> for a parameter left at its None default
Arg(args, i) == IF i <= Len(args) THEN <<args[i]>> ELSE <<>>

\* python's `x or d` on an optional int: None and 0 are falsy
OrElse(opt, d) == IF opt = <<>> THEN d ELSE IF opt[1] = 0 THEN d ELSE opt[1]

\* dict.get(key, ())
Get(d, k) == IF k \in DOMAIN d THEN d[k] ELSE <<>>

EmptyDict == [k \in {} |-> <<>>]

\* --------------------------------------------------------------- cell model
\* A frame is a tuple of cells; a wide grapheme takes two cells, the second
\* one being the None mark.
NoneMark == ""

is_wide(g) == g = "W"

strip_marks(chars) == SelectSeq(chars, LAMBDA c : c # NoneMark)

\* text is modelled as the tuple of its graphemes
join_cells(chars) == strip_marks(chars)

RECURSIVE to_cells(_)
to_cells(text) ==
    IF text = <<>> THEN <<>>
    ELSE (IF is_wide(Head(text)) THEN <<Head(text), NoneMark>> ELSE <<Head(text)>>)
         \o to_cells(Tail(text))

fix_cells(chars) ==
    IF chars = <<>> THEN chars
    ELSE LET start == IF chars[1] = NoneMark THEN <<" ">> ELSE <<>>
             end   == IF chars[Len(chars)] # NoneMark /\ is_wide(chars[Len(chars)])
                      THEN <<" ">> ELSE <<>>
             lo    == IF start # <<>> THEN 2 ELSE 1
             hi    == IF end # <<>> THEN Len(chars) - 1 ELSE Len(chars)
         IN  start \o SubSeq(chars, lo, hi) \o end

\* str.replace(old, new): every non-overlapping occurrence, left to right
RECURSIVE str_replace(_, _, _)
str_replace(s, old, new) ==
    IF old = <<>> \/ Len(s) < Len(old) THEN s
    ELSE IF SubSeq(s, 1, Len(old)) = old
         THEN new \o str_replace(SubSeq(s, Len(old) + 1, Len(s)), old, new)
         ELSE <<Head(s)>> \o str_replace(Tail(s), old, new)

\* ----------------------------------------------------------- the commands
\* EXTRA_COMMANDS[command] = post_info: pre_compiler_command registers False,
\* post_compiler_command registers True.
pre_compiler_command == FALSE
post_compiler_command == TRUE

EXTRA_COMMANDS ==
    [c \in {"replace", "pause", "reshape", "transpose", "randomize"} |->
        IF c = "randomize" THEN post_compiler_command ELSE pre_compiler_command]

\* the declared parameters after the leading spec: <<required, accepted>>
Signature ==
    [c \in DOMAIN EXTRA_COMMANDS |->
        CASE c = "replace"   -> <<2, 2>>
          [] c = "pause"     -> <<0, 2>>
          [] c = "reshape"   -> <<1, 1>>
          [] c = "transpose" -> <<0, 0>>
          [] c = "randomize" -> <<0, 1>>]

\* signature(command).bind(1, *args): TRUE when the arguments fit
bind_mutant(command, args) == TRUE

bind(command, args) ==
    /\ Len(args) >= Signature[command][1]
    /\ Len(args) <= Signature[command][2]

Ok(spec) == [status |-> "ok", spec |-> spec]
Fail(spec, exc) == [status |-> exc, spec |-> spec]

replace(spec, old, new) ==
    Ok([spec EXCEPT !.data =
        [c \in DOMAIN @ |->
            [f \in DOMAIN @[c] |-> to_cells(str_replace(join_cells(@[c][f]), old, new))]]])

pause_cycle_mutant(cycle, n_edges, n_middle) ==
    LET length == Len(cycle)
    IN  IF length = 1 THEN Repeat(cycle[1], 2 * n_edges)
        ELSE Flatten([i \in 1..length |->
                Repeat(cycle[i], IF i \in {1, length} THEN n_edges ELSE n_middle)])

pause_cycle(cycle, n_edges, n_middle) ==
    LET length == Len(cycle)
    IN  Flatten([i \in 1..length |->
            Repeat(cycle[i], IF i \in {1, length} THEN n_edges ELSE n_middle)])

pause(spec, n_edges, n_middle) ==
    LET ne == Max(1, OrElse(n_edges, 6))
        nm == Max(1, OrElse(n_middle, 1))
    IN  Ok([spec EXCEPT !.data = [c \in DOMAIN @ |-> pause_cycle(@[c], ne, nm)]])

\* iter(lambda: tuple(islice(flatten, num_frames)), ()): groups until an empty one
RECURSIVE reshape_groups_mutant(_, _)
reshape_groups_mutant(flatten, num_frames) ==
    IF num_frames = 0 \/ Len(flatten) < num_frames THEN <<>>
    ELSE <<SubSeq(flatten, 1, num_frames)>>
         \o reshape_groups_mutant(SubSeq(flatten, num_frames + 1, Len(flatten)), num_frames)

RECURSIVE reshape_groups(_, _)
reshape_groups(flatten, num_frames) ==
    IF num_frames = 0 \/ flatten = <<>> THEN <<>>
    ELSE <<SubSeq(flatten, 1, Min(num_frames, Len(flatten)))>>
         \o reshape_groups(SubSeq(flatten, num_frames + 1, Len(flatten)), num_frames)

reshape(spec, num_frames) ==
    IF num_frames < 0 THEN Fail(spec, "ValueError")  \* islice rejects a negative stop
    ELSE Ok([spec EXCEPT !.data = reshape_groups(Flatten(@), num_frames)])

\* zip(*spec.data): as many new cycles as the shortest old cycle has frames
transpose_mutant(spec) ==
    LET data == spec.data
        n    == IF data = <<>> THEN 0
                ELSE CHOOSE m \in {Len(data[c]) : c \in DOMAIN data} :
                        \A c \in DOMAIN data : m <= Len(data[c])
    IN  Ok([spec EXCEPT !.data =
               [j \in 1..n |-> [i \in DOMAIN data |-> data[Len(data) + 1 - i][j]]]])

transpose(spec) ==
    LET data == spec.data
        n    == IF data = <<>> THEN 0
                ELSE CHOOSE m \in {Len(data[c]) : c \in DOMAIN data} :
                        \A c \in DOMAIN data : m <= Len(data[c])
    IN  Ok([spec EXCEPT !.data = [j \in 1..n |-> [i \in DOMAIN data |-> data[i][j]]]])

randomize(spec, cycles) ==
    LET given == Max(0, OrElse(cycles, 0))
    IN  IF given # 0
        THEN Ok([spec EXCEPT !.randomize = TRUE, !.cycles = given,
                             !.attrs = @ \cup {"cycles"}])
        ELSE IF "cycles" \in spec.attrs
             THEN Ok([spec EXCEPT !.randomize = TRUE])
             ELSE Fail(spec, "AttributeError")  \* spec.cycles is not set yet

\* command(spec, *args, **kwargs)
invoke_command(spec, command, args) ==
    IF ~(Len(args) >= Signature[command][1] /\ Len(args) <= Signature[command][2])
    THEN Fail(spec, "TypeError")
    ELSE CASE command = "replace"   -> replace(spec, args[1], args[2])
           [] command = "pause"     -> pause(spec, Arg(args, 1), Arg(args, 2))
           [] command = "reshape"   -> reshape(spec, args[1])
           [] command = "transpose" -> transpose(spec)
           [] command = "randomize" -> randomize(spec, Arg(args, 1))

\* a scheduled command is the tuple (command, args); no call modelled here
\* passes keyword arguments
call_command(spec, cmd) == invoke_command(spec, cmd[1], cmd[2])

\* for command, args, kwargs in extra_commands: command(spec, *args, **kwargs)
\* `applied` lists the commands that ran to completion.
RECURSIVE apply_extra_commands(_, _)
apply_rest(r, extra_commands) ==
    IF r.status # "ok"
    THEN [status |-> r.status, spec |-> r.spec, applied |-> <<>>]
    ELSE [apply_extra_commands(r.spec, Tail(extra_commands))
             EXCEPT !.applied = <<Head(extra_commands)>> \o @]

apply_extra_commands(spec, extra_commands) ==
    IF extra_commands = <<>> THEN [status |-> "ok", spec |-> spec, applied |-> <<>>]
    ELSE apply_rest(call_command(spec, Head(extra_commands)), extra_commands)

\* ------------------------------------------------------ raw frame sources
\* The spinner factories handed to compiler_controller: their natural length,
\* the skip_compiler flag, the operational parameters they declare and the
\* cycles of frames they generate.
F(text) == to_cells(text)

Sources ==
    [ brackets |-> [natural |-> 4, skip_compiler |-> FALSE, params |-> {"right", "hide"},
                    cycles |-> << <<F(<<"[", "-", "-", "]">>), F(<<"[", "=", "=", "]">>)>> >>],
      pairs    |-> [natural |-> 2, skip_compiler |-> FALSE, params |-> {"right", "hide"},
                    cycles |-> << <<F(<<"-", "=">>), F(<<"=", "-">>)>>,
                                  <<F(<<"-", "-">>), F(<<"W">>)>> >>],
      three    |-> [natural |-> 1, skip_compiler |-> FALSE, params |-> {"right", "hide"},
                    cycles |-> << <<F(<<"-">>)>>, <<F(<<"=">>), F(<<"-">>)>>, <<F(<<"]">>)>> >>],
      uneven   |-> [natural |-> 4, skip_compiler |-> FALSE, params |-> {"right", "hide"},
                    cycles |-> << <<F(<<"[", "-", "-", "]">>), F(<<"[", "-", "-", "-", "]">>)>> >>],
      raw      |-> [natural |-> 2, skip_compiler |-> TRUE, params |-> {"right", "hide"},
                    cycles |-> << <<F(<<"-", "=">>)>> >>] ]

\* spinner_inner_factory(actual_length, **op_params): the cycles the factory
\* generates; actual_length cuts every frame, right=False plays each cycle
\* backwards, hide=True blanks the cells.
spinner_inner_factory(src, actual_length, op_params) ==
    LET cut(frame)   == IF actual_length = <<>> THEN frame
                        ELSE SubSeq(frame, 1, Min(actual_length[1], Len(frame)))
        blank(frame) == IF "hide" \in DOMAIN op_params /\ op_params["hide"]
                        THEN [k \in DOMAIN frame |-> " "] ELSE frame
        turn(cycle)  == IF "right" \in DOMAIN op_params /\ ~op_params["right"]
                        THEN Reverse(cycle) ELSE cycle
    IN  [c \in DOMAIN Sources[src].cycles |->
            turn([f \in DOMAIN Sources[src].cycles[c] |->
                    blank(cut(Sources[src].cycles[c][f]))])]

\* ------------------------------------------------------------ the compiler
NoSpec ==
    [data |-> <<>>, natural |-> 0, randomize |-> FALSE, attrs |-> {},
     cycles |-> 0, length |-> 0, frames |-> <<>>, total_frames |-> 0]

Widths(data) == UNION {{Len(data[c][f]) : f \in DOMAIN data[c]} : c \in DOMAIN data}

Event(phase, what, cmd) == [phase |-> phase, what |-> what, cmd |-> cmd]

CommandEvents(phase, cmds) == [k \in DOMAIN cmds |-> Event(phase, "command", cmds[k][1])]

\* spinner_compiler, from "generate spec info" on; r is what the commands left
spinner_compiler_info(r) ==
    LET log1   == CommandEvents("compiler", r.applied)
        data   == r.spec.data
        frames == [c \in DOMAIN data |-> Len(data[c])]
        spec1  == [r.spec EXCEPT
                     !.cycles = Len(data), !.length = Len(data[1][1]),
                     !.frames = frames, !.total_frames = SumSeq(frames),
                     !.attrs = @ \cup {"cycles", "length", "frames", "total_frames"}]
        log2   == log1 \o <<Event("compiler", "info", "")>>
    IN  IF r.status # "ok" THEN [status |-> r.status, spec |-> r.spec, log |-> log1]
        ELSE IF data = <<>> \/ data[1] = <<>>  \* spec.data[0][0]
        THEN [status |-> "IndexError", spec |-> r.spec, log |-> log1]
        ELSE IF Cardinality(Widths(data)) # 1
        THEN [status |-> "AssertionError", spec |-> spec1, log |-> log2]
        ELSE [status |-> "ok", spec |-> spec1,
              log |-> log2 \o <<Event("compiler", "assert", "")>>]

\* spinner_compiler(gen, natural, extra_commands)
spinner_compiler(gen, natural, extra_commands) ==
    spinner_compiler_info(
        apply_extra_commands(
            [NoSpec EXCEPT
                !.data = [c \in DOMAIN gen |-> [f \in DOMAIN gen[c] |-> fix_cells(gen[c][f])]],
                !.natural = natural,
                !.attrs = {"data", "natural", "randomize"}],
            extra_commands))

\* ------------------------------------------------------ the runner factory
\* The names the module defines at top level: `sequential` is not one of them.
ModuleNames ==
    {"compiler_controller", "fix_signature", "extra_command", "EXTRA_COMMANDS",
     "pre_compiler_command", "post_compiler_command", "replace", "pause", "reshape",
     "transpose", "randomize", "apply_extra_commands", "spinner_compiler",
     "spinner_runner_factory", "check", "SECTION", "CHECK", "HELP_MSG",
     "format_codepoints", "render_frames", "animate"}

\* spinner_runner_factory once its commands ran; r is what they left
runner_result(base, r) ==
    [base EXCEPT !.status = r.status, !.spec = r.spec,
                 !.log = CommandEvents("factory", r.applied)]

\* spinner_runner_factory(spec, t_compile, extra_commands)
\*   exposed:  spinner_runner.__dict__ after update(spec.__dict__, check=...)
\*   strategy: which generator cycle_gen is
spinner_runner_factory(spec, extra_commands) ==
    LET exposed  == [spec EXCEPT !.attrs = @ \cup {"check"}]
        spec1    == [spec EXCEPT !.attrs = @ \cup {"t_compile", "runner"}]
        strategy == IF spec.randomize THEN "random" ELSE "ordered"
        base     == [status |-> "ok", spec |-> spec1, exposed |-> exposed,
                     strategy |-> strategy, log |-> <<>>]
    IN  IF extra_commands = <<>> /\ "sequential" \notin ModuleNames
        THEN [base EXCEPT !.status = "NameError"]
        ELSE runner_result(base, apply_extra_commands(spec1, extra_commands))

\* ---------------------------------------------------------- the controller
NoRunner ==
    [status |-> "none", spec |-> NoSpec, exposed |-> NoSpec, strategy |-> "none",
     log |-> <<>>,
     call |-> [src |-> "none", actual_length |-> <<>>, op_params |-> EmptyDict,
               pre |-> <<>>, post |-> <<>>]]

\* the terminal before any call: isatty is what sys.stdout.isatty() returned
\* when utils.terminal was imported; the cursor is visible
NoConsole ==
    [isatty |-> TRUE, cursor |-> "shown", written |-> <<>>, printed |-> <<>>,
     pc |-> "idle", last |-> "none", verbosity |-> 0, c |-> 0, frame |-> <<>>]

\* the commands scheduled on a builder, by the tag they were registered with
Scheduled(b, cmd_type) == Get(dicts[b.extra], cmd_type)

\* compiler_dispatcher, after spinner_compiler returned c
dispatch_runner(call, c, r) ==
    IF c.status # "ok"
    THEN [NoRunner EXCEPT !.status = c.status, !.spec = c.spec, !.log = c.log, !.call = call]
    ELSE [status |-> r.status, spec |-> r.spec, exposed |-> r.exposed,
          strategy |-> r.strategy, log |-> c.log \o r.log, call |-> call]

dispatch_compiled(call, c, extra_commands) ==
    dispatch_runner(call, c,
        IF c.status # "ok" THEN NoRunner
        ELSE spinner_runner_factory(c.spec, Get(extra_commands, FALSE)))

\* compiler_dispatcher(actual_length) of a builder with these bindings
compile(src, actual_length, op_params, extra_commands) ==
    LET call == [src |-> src, actual_length |-> actual_length, op_params |-> op_params,
                 pre |-> Get(extra_commands, pre_compiler_command),
                 post |-> Get(extra_commands, post_compiler_command)]
    IN  IF Sources[src].skip_compiler
        THEN [NoRunner EXCEPT !.status = "skipped", !.call = call]
        ELSE dispatch_compiled(call,
                spinner_compiler(spinner_inner_factory(src, actual_length, op_params),
                                 Sources[src].natural, Get(extra_commands, TRUE)),
                extra_commands)

compiler_dispatcher(b, actual_length) ==
    compile(b.src, actual_length, b.op_params, dicts[b.extra])

\* inner_controller(spinner_inner_factory, op_params, extra_commands) on heap
\* `heap`; extra_ref = 0 stands for None.  `op_params or {}`, `extra_commands or {}`.
inner_controller(heap, src, op_params, extra_ref) ==
    LET fresh == extra_ref = 0 \/ DOMAIN heap[extra_ref] = {}
    IN  [dicts   |-> IF fresh THEN Append(heap, EmptyDict) ELSE heap,
         builder |-> [src |-> src, op_params |-> op_params,
                      extra |-> IF fresh THEN Len(heap) + 1 ELSE extra_ref]]

\* extra = dict(extra_commands): a new dict object with the same items
dict_copy_mutant(heap, ref) == [dicts |-> heap, ref |-> ref]

dict_copy(heap, ref) == [dicts |-> Append(heap, heap[ref]), ref |-> Len(heap) + 1]

\* extra[cmd_type] = extra.get(cmd_type, ()) + ((command, args, kwargs),)
append_command_mutant(d, cmd_type, cmd) ==
    [k \in DOMAIN d \cup {cmd_type} |->
        IF k = cmd_type THEN <<cmd>> \o Get(d, cmd_type) ELSE d[k]]

append_command(d, cmd_type, cmd) ==
    [k \in DOMAIN d \cup {cmd_type} |->
        IF k = cmd_type THEN Get(d, cmd_type) \o <<cmd>> ELSE d[k]]

\* ----------------------------------------------------------------- inputs
Cmd(command, args) == <<command, args>>

\* the schedule calls tried on the builders
ScheduleCalls ==
    { Cmd("replace", << <<"-">>, <<"=">> >>),
      Cmd("replace", << <<"-">>, <<"-", "-">> >>),
      Cmd("pause", <<2>>),
      Cmd("reshape", <<3>>),
      Cmd("transpose", <<>>),
      Cmd("randomize", <<>>),
      Cmd("randomize", <<5>>),
      Cmd("reshape", <<>>),
      Cmd("transpose", <<1>>) }

\* the op() calls tried on the builders
OperationalCalls == { [right |-> FALSE], [hide |-> TRUE], [bogus |-> TRUE] }

\* the actual_length arguments tried: None (the default) and 1
ActualLengths == { <<>>, <<1>> }

\* the sources the builders are made for, and the actual_length they are
\* compiled with
BuilderSources == {"brackets", "pairs", "uneven", "raw"}

BuilderLengths == { <<>> }

\* ------------------------------------------------------------- operations
\* schedule_command(command)(*args): inner_schedule
Schedule(i, cmd) ==
    /\ Len(builders) < MaxBuilders
    /\ IF ~bind(cmd[1], cmd[2])
       THEN /\ raised' = "TypeError"
            /\ UNCHANGED <<dicts, builders>>
       ELSE LET b     == builders[i]
                extra == dict_copy(dicts, b.extra)
                heap  == [extra.dicts EXCEPT ![extra.ref] =
                             append_command(@, EXTRA_COMMANDS[cmd[1]], cmd)]
                new   == inner_controller(heap, b.src, b.op_params, extra.ref)
            IN  /\ dicts' = new.dicts
                /\ builders' = Append(builders, new.builder)
                /\ raised' = "none"
    /\ UNCHANGED <<runner, cycle_gen, gens, cmd_spec, applied, console>>

\* set_operational(**params)
SetOperational(i, params) ==
    /\ Len(builders) < MaxBuilders
    /\ IF ~(DOMAIN params \subseteq Sources[builders[i].src].params)
       THEN /\ raised' = "TypeError"
            /\ UNCHANGED <<dicts, builders>>
       ELSE LET b   == builders[i]
                new == inner_controller(dicts, b.src, params, b.extra)
            IN  /\ dicts' = new.dicts
                /\ builders' = Append(builders, new.builder)
                /\ raised' = "none"
    /\ UNCHANGED <<runner, cycle_gen, gens, cmd_spec, applied, console>>

\* compiler_dispatcher(actual_length)
Compile(i, actual_length) ==
    LET out == compiler_dispatcher(builders[i], actual_length)
    IN  /\ runner' = out
        /\ raised' = IF out.status \in {"ok", "skipped"} THEN "none" ELSE out.status
        /\ cycle_gen' = 0
        /\ gens' = <<>>
        /\ UNCHANGED <<dicts, builders, cmd_spec, applied, console>>

Init ==
    /\ \E src \in BuilderSources :
          LET new == inner_controller(<<>>, src, EmptyDict, 0)
          IN  dicts = new.dicts /\ builders = <<new.builder>>
    /\ raised = "none"
    /\ runner = NoRunner
    /\ cycle_gen = 0
    /\ gens = <<>>
    /\ cmd_spec = NoSpec
    /\ applied = <<>>
    /\ console = NoConsole

Next ==
    \/ \E i \in DOMAIN builders, cmd \in ScheduleCalls : Schedule(i, cmd)
    \/ \E i \in DOMAIN builders, params \in OperationalCalls : SetOperational(i, params)
    \/ \E i \in DOMAIN builders, al \in BuilderLengths : Compile(i, al)

Spec == Init /\ [][Next]_vars

\* ------------------------------------------------------------ the runner
\* ordered_cycle_data: `while True: yield from spec.data`, at position pos
ordered_cycle_data_mutant(data, pos) ==
    {[status |-> "ok", cycle |-> data[pos + 1],
      pos |-> IF pos + 1 >= Len(data) - 1 THEN 0 ELSE pos + 1]}

ordered_cycle_data(data, pos) ==
    {[status |-> "ok", cycle |-> data[pos + 1], pos |-> (pos + 1) % Len(data)]}

\* random_cycle_data: `while True: yield random.choice(spec.data)`
random_cycle_data_mutant(spec, pos) ==
    {IF i <= Len(spec.data)
     THEN [status |-> "ok", cycle |-> spec.data[i], pos |-> pos]
     ELSE [status |-> "IndexError", cycle |-> <<>>, pos |-> pos] : i \in 1..spec.cycles}

random_cycle_data(spec, pos) ==
    IF spec.data = <<>>
    THEN {[status |-> "IndexError", cycle |-> <<>>, pos |-> pos]}
    ELSE {[status |-> "ok", cycle |-> spec.data[i], pos |-> pos] : i \in DOMAIN spec.data}

\* next(cycle_gen): the outcomes the runner's cycle generator can produce
next_cycle_gen ==
    IF runner.strategy = "random" THEN random_cycle_data(runner.spec, cycle_gen)
    ELSE IF runner.spec.data = <<>> THEN {}  \* `yield from ()` forever: never returns
    ELSE ordered_cycle_data(runner.spec.data, cycle_gen)

NewGen == [state |-> "created", cycle |-> <<>>, pos |-> 0, out |-> <<>>]

\* one next() on a spinner_runner generator that is inside `yield from cycle`
yield_from(g) ==
    IF g.pos < Len(g.cycle)
    THEN [g EXCEPT !.state = "running", !.pos = @ + 1, !.out = Append(@, g.cycle[g.pos + 1])]
    ELSE [g EXCEPT !.state = "done"]

\* spinner_runner(): a call only creates the generator
Invoke ==
    /\ runner.status = "ok"
    /\ Len(gens) < MaxGens
    /\ gens' = Append(gens, NewGen)
    /\ raised' = "none"
    /\ UNCHANGED <<dicts, builders, runner, cycle_gen, cmd_spec, applied, console>>

\* next() on the k-th generator: the first one runs next(cycle_gen)
Pull(k) ==
    /\ gens[k].state \in {"created", "running"}
    /\ IF gens[k].state = "created"
       THEN \E c \in next_cycle_gen :
               /\ cycle_gen' = c.pos
               /\ IF c.status = "ok"
                  THEN /\ gens' = [gens EXCEPT ![k] = yield_from([@ EXCEPT !.cycle = c.cycle])]
                       /\ raised' = "none"
                  ELSE /\ gens' = [gens EXCEPT ![k].state = "failed"]
                       /\ raised' = c.status
       ELSE /\ gens' = [gens EXCEPT ![k] = yield_from(@)]
            /\ raised' = "none"
            /\ UNCHANGED cycle_gen
    /\ UNCHANGED <<dicts, builders, runner, cmd_spec, applied, console>>

\* the builders whose runners are played: a source, its pre-commands and its
\* post-commands
RunSources == {"brackets", "pairs", "three"}

RunPre ==
    { <<Cmd("pause", <<1, 1>>)>>,
      <<Cmd("reshape", <<3>>)>>,
      <<Cmd("transpose", <<>>)>>,
      <<Cmd("replace", << <<"-">>, <<"-", "-">> >>)>> }

RunPost == { <<>>, <<Cmd("randomize", <<1>>)>>, <<Cmd("randomize", <<5>>)>> }

ExtraOf(pre, post) ==
    [k \in {t \in BOOLEAN : (IF t THEN post ELSE pre) # <<>>} |-> IF k THEN post ELSE pre]

InitRun ==
    /\ \E src \in RunSources, pre \in RunPre, post \in RunPost, al \in ActualLengths :
          LET new == inner_controller(<<ExtraOf(pre, post)>>, src, EmptyDict, 1)
          IN  /\ dicts = new.dicts
              /\ builders = <<new.builder>>
              /\ runner = compile(src, al, EmptyDict, ExtraOf(pre, post))
    /\ runner.status = "ok"
    /\ raised = "none"
    /\ cycle_gen = 0
    /\ gens = <<>>
    /\ cmd_spec = NoSpec
    /\ applied = <<>>
    /\ console = NoConsole

NextRun ==
    \/ Invoke
    \/ \E k \in DOMAIN gens : Pull(k)

SpecRun == InitRun /\ [][NextRun]_vars

\* --------------------------------------------- the commands, one at a time
\* One turn of the loop in apply_extra_commands.
ApplyCommand(cmd) ==
    /\ Len(applied) < MaxApply
    /\ IF call_command(cmd_spec, cmd).status = "ok"
       THEN /\ cmd_spec' = call_command(cmd_spec, cmd).spec
            /\ applied' = Append(applied, cmd)
            /\ raised' = "none"
       ELSE /\ raised' = call_command(cmd_spec, cmd).status
            /\ UNCHANGED <<cmd_spec, applied>>
    /\ UNCHANGED <<dicts, builders, runner, cycle_gen, gens, console>>

CommandCalls ==
    { Cmd("replace", << <<"-">>, <<"=">> >>),
      Cmd("pause", <<>>),
      Cmd("pause", <<1, 1>>),
      Cmd("pause", <<2, 3>>),
      Cmd("pause", <<0, 0>>),
      Cmd("pause", <<-3, -3>>),
      Cmd("reshape", <<1>>),
      Cmd("reshape", <<2>>),
      Cmd("reshape", <<3>>),
      Cmd("reshape", <<5>>),
      Cmd("transpose", <<>>),
      Cmd("randomize", <<>>),
      Cmd("randomize", <<2>>) }

\* the spec as spinner_compiler creates it, or as it hands it to the runner factory
InitCmd ==
    /\ \E src \in RunSources \cup {"uneven"}, al \in ActualLengths, finalized \in BOOLEAN :
          LET c == spinner_compiler(spinner_inner_factory(src, al, EmptyDict),
                                    Sources[src].natural, <<>>)
          IN  cmd_spec = IF finalized THEN c.spec
                         ELSE [c.spec EXCEPT !.cycles = 0, !.length = 0, !.frames = <<>>,
                                             !.total_frames = 0,
                                             !.attrs = {"data", "natural", "randomize"}]
    /\ applied = <<>>
    /\ console = NoConsole
    /\ raised = "none"
    /\ dicts = <<>>
    /\ builders = <<>>
    /\ runner = NoRunner
    /\ cycle_gen = 0
    /\ gens = <<>>

NextCmd == \E cmd \in CommandCalls : ApplyCommand(cmd)

SpecCmd == InitCmd /\ [][NextCmd]_vars

\* ------------------------------------------------------------ the terminal
\* _send_ansi_escape(sequence): with a tty, a callable that writes the escape
\* sequence (here <<sequence>>); without one the function body is `pass` and
\* what it returns is None (here <<>>).
send_ansi_escape(isatty, sequence) == IF isatty THEN <<sequence>> ELSE <<>>

clear_traces(isatty) == send_ansi_escape(isatty, "2K")
hide_cursor(isatty) == send_ansi_escape(isatty, "?25l")
show_cursor(isatty) == send_ansi_escape(isatty, "?25h")

\* f(): calling None raises TypeError; the callable writes its sequence
call_escape(con, f) ==
    IF f = <<>> THEN [status |-> "TypeError", con |-> con]
    ELSE [status |-> "ok",
          con |-> [con EXCEPT !.written = Append(@, f[1]),
                              !.cursor = IF f[1] = "?25l" THEN "hidden"
                                         ELSE IF f[1] = "?25h" THEN "shown" ELSE @]]

\* ------------------------------------------------------- check and animate
\* the verbosity levels that have a help message
HELP_MSG == [v \in 0..5 |-> "call"]

\* check(spec, verbosity) up to the call of animate: what it printed, whether
\* it raised, and whether it goes on to animate(spec)
check(spec, verbosity) ==
    LET level   == Max(0, Min(5, OrElse(verbosity, 0)))
        frames  == IF level \in {1, 2, 4, 5}
                   THEN <<IF level \in {2, 5} THEN "frame data, codepoints" ELSE "frame data">>
                   ELSE <<>>
        head    == frames \o <<"duration">>
                   \o (IF level \in DOMAIN HELP_MSG THEN <<"help">> ELSE <<>>)
                   \o <<"Specs">>
        info(printed, fields) ==
            IF printed.status # "ok" THEN printed
            ELSE IF \E k \in DOMAIN fields : fields[k] \notin spec.attrs
            THEN [printed EXCEPT !.status = "AttributeError"]
            ELSE [printed EXCEPT !.printed = @ \o fields]
        start   == [status |-> "ok", printed |-> head, level |-> level,
                    animate |-> level \in {3, 4, 5}]
    IN  info(info(info(info(start, <<"length", "natural">>),
                       <<"cycles", "strategy">>), <<"frames">>), <<"total_frames">>)

\* animate(spec) up to the try statement
animate_start(con, spec) ==
    LET con1 == [con EXCEPT !.printed = Append(@, "Animation"), !.c = 0]
        h    == call_escape(con1, hide_cursor(con.isatty))
    IN  IF {"cycles", "frames"} \subseteq spec.attrs
        THEN [status |-> h.status,
              con |-> [h.con EXCEPT !.pc = IF h.status = "ok" THEN "loop" ELSE "raised"]]
        ELSE [status |-> "AttributeError", con |-> [con1 EXCEPT !.pc = "raised"]]

\* animate(spec), leaving the try statement with exception exc:
\* `except KeyboardInterrupt: pass` and `finally: show_cursor()`
animate_exit_mutant(con, exc) ==
    LET s == call_escape(con, show_cursor(con.isatty))
    IN  IF exc # "KeyboardInterrupt" THEN [status |-> exc, con |-> [con EXCEPT !.pc = "raised"]]
        ELSE IF s.status # "ok" THEN [status |-> s.status, con |-> [s.con EXCEPT !.pc = "raised"]]
        ELSE [status |-> "none", con |-> [s.con EXCEPT !.pc = "returned"]]

animate_exit(con, exc) ==
    LET s == call_escape(con, show_cursor(con.isatty))
    IN  IF s.status # "ok" THEN [status |-> s.status, con |-> [s.con EXCEPT !.pc = "raised"]]
        ELSE IF exc = "KeyboardInterrupt"
        THEN [status |-> "none", con |-> [s.con EXCEPT !.pc = "returned"]]
        ELSE [status |-> exc, con |-> [s.con EXCEPT !.pc = "raised"]]

\* a new call on the console: nothing written or printed by it yet
Called(name) ==
    [console EXCEPT !.written = <<>>, !.printed = <<>>, !.last = name,
                    !.pc = "idle", !.frame = <<>>, !.c = 0, !.verbosity = 0]

\* the verbosity arguments tried: None, and the integers from -1 to 6
Verbosities == {<<>>} \cup {<<v>> : v \in -1..6}

TerminalCalls == {"clear_traces", "hide_cursor", "show_cursor"}

\* clear_traces(), hide_cursor() or show_cursor() called by itself
Escape(name) ==
    /\ console.pc # "loop"
    /\ LET f == CASE name = "clear_traces" -> clear_traces(console.isatty)
                  [] name = "hide_cursor"  -> hide_cursor(console.isatty)
                  [] name = "show_cursor"  -> show_cursor(console.isatty)
           r == call_escape(Called(name), f)
       IN  /\ console' = r.con
           /\ raised' = IF r.status = "ok" THEN "none" ELSE r.status
    /\ UNCHANGED <<dicts, builders, runner, cycle_gen, gens, cmd_spec, applied>>

\* animate(spec) called, by check() or directly, on console con
StartAnimate(con) ==
    LET a == animate_start(con, runner.spec)
    IN  /\ console' = a.con
        /\ raised' = IF a.status = "ok" THEN "none" ELSE a.status
        /\ gens' = <<>>

\* spinner_runner.check(verbosity): runner_check forwards to check(spec, ...)
Check(verbosity) ==
    /\ console.pc # "loop"
    /\ runner.status = "ok"
    /\ LET r   == check(runner.spec, verbosity)
           con == [Called("check") EXCEPT !.printed = r.printed, !.verbosity = r.level]
       IN  IF r.status # "ok"
           THEN /\ console' = [con EXCEPT !.pc = "raised"]
                /\ raised' = r.status
                /\ UNCHANGED gens
           ELSE IF r.animate THEN StartAnimate(con)
           ELSE /\ console' = [con EXCEPT !.pc = "returned"]
                /\ raised' = "none"
                /\ UNCHANGED gens
    /\ UNCHANGED <<dicts, builders, runner, cycle_gen, cmd_spec, applied>>

\* animate(spec) called directly
Animate ==
    /\ console.pc # "loop"
    /\ runner.status = "ok"
    /\ StartAnimate(Called("animate"))
    /\ UNCHANGED <<dicts, builders, runner, cycle_gen, cmd_spec, applied>>

\* the try statement is left with exception exc
AnimExit(exc) ==
    LET r == animate_exit([console EXCEPT !.last = exc], exc)
    IN  /\ console' = r.con
        /\ raised' = r.status

\* c = next(cycles) and spec.runner(): the for loop gets a new generator
AnimCycle ==
    /\ console.pc = "loop"
    /\ IF gens = <<>> THEN TRUE ELSE gens[1].state = "done"
    /\ gens' = <<NewGen>>
    /\ console' = [console EXCEPT !.c = (@ % runner.spec.cycles) + 1, !.last = "cycle"]
    /\ UNCHANGED <<dicts, builders, raised, runner, cycle_gen, cmd_spec, applied>>

\* the for loop asked generator g for a frame; print then succeeds or fails
AnimPrint(g) ==
    IF g.state = "done"
    THEN /\ gens' = <<g>>
         /\ console' = [console EXCEPT !.last = "cycle end"]
         /\ UNCHANGED raised
    ELSE \E failure \in {"none", "OSError"} :
            IF failure = "none"
            THEN /\ gens' = <<g>>
                 /\ console' = [console EXCEPT !.frame = join_cells(g.out[Len(g.out)]),
                                               !.last = "frame"]
                 /\ UNCHANGED raised
            ELSE /\ gens' = <<g>>
                 /\ AnimExit(failure)

\* one turn of `for i, f in enumerate(spec.runner(), 1)`
AnimFrame ==
    /\ console.pc = "loop"
    /\ gens # <<>>
    /\ gens[1].state \in {"created", "running"}
    /\ IF gens[1].state = "created"
       THEN \E c \in next_cycle_gen :
               /\ cycle_gen' = c.pos
               /\ IF c.status = "ok"
                  THEN AnimPrint(yield_from([gens[1] EXCEPT !.cycle = c.cycle]))
                  ELSE /\ gens' = <<[gens[1] EXCEPT !.state = "failed"]>>
                       /\ AnimExit(c.status)
       ELSE /\ AnimPrint(yield_from(gens[1]))
            /\ UNCHANGED cycle_gen
    /\ UNCHANGED <<dicts, builders, runner, cmd_spec, applied>>

\* CTRL+C while the loop runs
Interrupt ==
    /\ console.pc = "loop"
    /\ AnimExit("KeyboardInterrupt")
    /\ UNCHANGED <<dicts, builders, runner, cycle_gen, gens, cmd_spec, applied>>

InitCheck ==
    /\ \E src \in RunSources, pre \in RunPre, post \in RunPost, isatty \in BOOLEAN :
          LET new == inner_controller(<<ExtraOf(pre, post)>>, src, EmptyDict, 1)
          IN  /\ dicts = new.dicts
              /\ builders = <<new.builder>>
              /\ runner = compile(src, <<>>, EmptyDict, ExtraOf(pre, post))
              /\ console = [NoConsole EXCEPT !.isatty = isatty]
    /\ runner.status = "ok"
    /\ raised = "none"
    /\ cycle_gen = 0
    /\ gens = <<>>
    /\ cmd_spec = NoSpec
    /\ applied = <<>>

NextCheck ==
    \/ \E name \in TerminalCalls : Escape(name)
    \/ \E verbosity \in Verbosities : Check(verbosity)
    \/ Animate
    \/ AnimCycle
    \/ AnimFrame
    \/ Interrupt

SpecCheck == InitCheck /\ [][NextCheck]_vars

\* ================================================================== claims
Compiled == runner.status \notin {"none", "skipped"}

Names(cmds) == [k \in DOMAIN cmds |-> cmds[k][1]]

\* the frames the factory generated for the last compile, after fix_cells
FixedGen(call) ==
    LET gen == spinner_inner_factory(call.src, call.actual_length, call.op_params)
    IN  [c \in DOMAIN gen |-> [f \in DOMAIN gen[c] |-> fix_cells(gen[c][f])]]

\* C1: whenever compile() returns a runner, every frame of every cycle it can
\* play has the same width, and that width is the length the runner reports;
\* a mismatch introduced by a scheduled pre-command is never accepted.
C1_UniformWidth ==
    runner.status = "ok" =>
        \A c \in DOMAIN runner.spec.data : \A f \in DOMAIN runner.spec.data[c] :
            Len(runner.spec.data[c][f]) = runner.exposed.length

\* C2: compile() of a builder with no post-command scheduled never fails for
\* the lack of commands (only a specification error can stop it), and the
\* runner it returns selects the cycles sequentially.
C2_EmptyPostCompiles ==
    (Compiled /\ runner.call.post = <<>>) =>
        /\ runner.status \in {"ok", "AssertionError"}
        /\ runner.status = "ok" => runner.strategy = "ordered"

\* C4: in every compile() each pre-command runs inside the compiler, before
\* the metadata is computed and the widths are checked, and each post-command
\* runs in the runner factory only.
C4_PhaseOfCommands ==
    \A k \in DOMAIN runner.log :
        runner.log[k].what = "command" =>
            IF EXTRA_COMMANDS[runner.log[k].cmd] = pre_compiler_command
            THEN /\ runner.log[k].phase = "compiler"
                 /\ \A j \in 1..k : runner.log[j].what \notin {"info", "assert"}
            ELSE runner.log[k].phase = "factory"

\* C8: compile() of a builder with randomize(override) scheduled (and a
\* pre-command too, so that the runner factory has commands to run) succeeds
\* unless the widths differ, sets randomize, reports the override as the cycle
\* count when it is positive and the actual number of cycles otherwise, and
\* leaves the frame data as the pre-commands made it.
C8_Override(args) == IF args # <<>> /\ args[1] > 0 THEN args[1] ELSE 0

C8_RandomizeOverride ==
    (Compiled /\ Len(runner.call.post) = 1 /\ runner.call.pre # <<>>) =>
        /\ runner.status \in {"ok", "AssertionError"}
        /\ runner.status = "ok" =>
              /\ runner.spec.randomize
              /\ runner.strategy = "random"
              /\ runner.spec.cycles =
                    IF C8_Override(runner.call.post[1][2]) > 0
                    THEN C8_Override(runner.call.post[1][2])
                    ELSE Len(runner.spec.data)

\* C5: no step changes a builder that exists already: its operational
\* parameters and its scheduled commands of both phases stay what they were,
\* and so does what its compile() produces.
C5_View(bs, ds, i) ==
    [src |-> bs[i].src, op_params |-> bs[i].op_params,
     pre |-> Get(ds[bs[i].extra], pre_compiler_command),
     post |-> Get(ds[bs[i].extra], post_compiler_command)]

C5_Compile(bs, ds, i, al) == compile(bs[i].src, al, bs[i].op_params, ds[bs[i].extra])

C5_BuildersImmutable ==
    [][\/ <<builders, dicts>>' = <<builders, dicts>>
       \/ \A i \in DOMAIN builders :
             /\ i \in DOMAIN builders'
             /\ C5_View(builders', dicts', i) = C5_View(builders, dicts, i)
             /\ \A al \in BuilderLengths :
                   C5_Compile(builders', dicts', i, al) = C5_Compile(builders, dicts, i, al)]_vars

\* a builder B without commands, one derived from it and one derived from that
C5_Witness ==
    /\ Len(builders) = 3
    /\ DOMAIN dicts[builders[1].extra] = {}
    /\ Len(Scheduled(builders[2], pre_compiler_command)) = 1
    /\ Len(Scheduled(builders[3], pre_compiler_command)) = 1
    /\ Len(Scheduled(builders[3], post_compiler_command)) = 1
    /\ DOMAIN builders[3].op_params = {}

\* C6: a schedule call whose arguments do not fit the command's parameters
\* raises at the call, returns no builder and appends no command; no compile()
\* raises the binding error of a command call.
C6_Fits(cmd) ==
    CASE cmd[1] = "replace"   -> Len(cmd[2]) = 2
      [] cmd[1] = "pause"     -> Len(cmd[2]) <= 2
      [] cmd[1] = "reshape"   -> Len(cmd[2]) = 1
      [] cmd[1] = "transpose" -> Len(cmd[2]) = 0
      [] cmd[1] = "randomize" -> Len(cmd[2]) <= 1

C6_BindingErrorAtSchedule ==
    [][/\ \A i \in DOMAIN builders, cmd \in ScheduleCalls :
             (~C6_Fits(cmd) /\ Schedule(i, cmd)) =>
                 raised' = "TypeError" /\ builders' = builders /\ dicts' = dicts
       /\ runner'.status # "TypeError"
       /\ \A d \in DOMAIN dicts' : \A t \in DOMAIN dicts'[d] :
             \A k \in DOMAIN dicts'[d][t] : C6_Fits(dicts'[d][t][k])]_vars

\* a call that did not fit has just been refused, after one that was accepted
C6_Witness ==
    /\ raised = "TypeError"
    /\ Len(builders) = 2
    /\ Scheduled(builders[2], pre_compiler_command) # <<>>

\* C7: scheduling pre-command c on a builder gives a builder whose runner
\* plays c applied to what the first builder's pre-commands produce, and a
\* compile() runs every scheduled pre-command once, in scheduling order.
C7_Ran(log) ==
    LET ran == SelectSeq(log, LAMBDA e : /\ e.what = "command"
                                        /\ EXTRA_COMMANDS[e.cmd] = pre_compiler_command)
    IN  [k \in DOMAIN ran |-> ran[k].cmd]

C7_PreCommandsInOrder ==
    [][/\ \A i \in DOMAIN builders, cmd \in ScheduleCalls :
             (/\ Len(builders') = Len(builders) + 1
              /\ C6_Fits(cmd)
              /\ EXTRA_COMMANDS[cmd[1]] = pre_compiler_command
              /\ Schedule(i, cmd)
              /\ C5_Compile(builders', dicts', Len(builders'), <<>>).status = "ok")
             => C5_Compile(builders', dicts', Len(builders'), <<>>).spec.data
                   = call_command(C5_Compile(builders, dicts, i, <<>>).spec, cmd).spec.data
       /\ runner'.status = "ok" => C7_Ran(runner'.log) = Names(runner'.call.pre)]_vars

\* a runner compiled from two pre-commands whose order matters
C7_Witness ==
    /\ runner.status = "ok"
    /\ Len(runner.call.pre) = 2
    /\ runner.spec.data =
          call_command(call_command([NoSpec EXCEPT !.data = FixedGen(runner.call)],
                                    runner.call.pre[1]).spec,
                       runner.call.pre[2]).spec.data
    /\ runner.spec.data #
          call_command(call_command([NoSpec EXCEPT !.data = FixedGen(runner.call)],
                                    runner.call.pre[2]).spec,
                       runner.call.pre[1]).spec.data

\* C3: on a sequential runner, when every generator is exhausted before the
\* next spinner_runner() call, the k-th generator plays cycle (k-1) mod n: it
\* yields that cycle's frames in their stored order and then ends.
C3_InTurn(k) ==
    /\ runner.strategy = "ordered"
    /\ k = Len(gens)
    /\ \A j \in 1..(k - 1) : gens[j].state = "done"
    /\ gens[k].state = "created"
    /\ gens'[k].state # "created"

C3_SequentialCycles ==
    [][/\ \A k \in DOMAIN gens :
             C3_InTurn(k) =>
                 gens'[k].cycle =
                     runner.spec.data[((k - 1) % Len(runner.spec.data)) + 1]
       /\ \A k \in DOMAIN gens' :
             /\ gens'[k].state # "failed"
             /\ gens'[k].out = SubSeq(gens'[k].cycle, 1, gens'[k].pos)
             /\ gens'[k].state = "done" => gens'[k].out = gens'[k].cycle]_vars

\* three cycles, four generators consumed in turn: cycles 0, 1, 2, 0
C3_Witness ==
    /\ runner.strategy = "ordered"
    /\ Len(runner.spec.data) = 3
    /\ Len(gens) = 4
    /\ \A k \in 1..4 :
          /\ gens[k].state = "done"
          /\ gens[k].out = runner.spec.data[((k - 1) % 3) + 1]
    /\ gens[4].out = gens[1].out
    /\ gens[2].out # gens[1].out

\* C9: on a randomized runner every generator plays one cycle of the spec's
\* data, whole and in order, whatever cycle count was asked for; the data
\* stays what compile() made it.
C9_RandomCycles ==
    runner.strategy = "random" =>
        /\ runner.spec.data =
              compile(runner.call.src, runner.call.actual_length, runner.call.op_params,
                      ExtraOf(runner.call.pre, runner.call.post)).spec.data
        /\ \A k \in DOMAIN gens :
              /\ gens[k].state # "failed"
              /\ gens[k].state # "created" =>
                    /\ \E c \in DOMAIN runner.spec.data : gens[k].cycle = runner.spec.data[c]
                    /\ gens[k].out = SubSeq(gens[k].cycle, 1, gens[k].pos)
              /\ gens[k].state = "done" => gens[k].out = gens[k].cycle

\* the same cycle played twice in a row, and another one after it, with a
\* requested cycle count above the number of cycles
C9_Witness ==
    /\ runner.strategy = "random"
    /\ runner.call.post[1][2][1] > Len(runner.spec.data)
    /\ Len(gens) = 3
    /\ \A k \in 1..3 : gens[k].state = "done"
    /\ gens[1].out = gens[2].out
    /\ gens[3].out # gens[2].out

\* C10: reshape(num_frames) with num_frames > 0 keeps the frames and their
\* flattened order; every new cycle but the last has num_frames frames and the
\* last has between 1 and num_frames.
C10_Reshaped(before, after, n) ==
    /\ Flatten(after) = Flatten(before)
    /\ \A c \in DOMAIN after :
          /\ Len(after[c]) >= 1
          /\ Len(after[c]) <= n
          /\ c < Len(after) => Len(after[c]) = n

C10_ReshapeGroups ==
    [][\A cmd \in CommandCalls :
          (cmd[1] = "reshape" /\ cmd[2][1] > 0 /\ ApplyCommand(cmd)) =>
              /\ applied' = Append(applied, cmd)
              /\ C10_Reshaped(cmd_spec.data, cmd_spec'.data, cmd[2][1])]_vars

\* two cycles of two frames regrouped by three: cycles of 3 and 1 frames
C10_Witness ==
    /\ applied = <<Cmd("reshape", <<3>>)>>
    /\ cmd_spec.natural = 2
    /\ [c \in DOMAIN cmd_spec.data |-> Len(cmd_spec.data[c])] = <<3, 1>>

\* C11: pause(e, m) with e >= 1 and m >= 1 keeps the number of cycles and turns
\* each cycle into its first frame e times, every interior frame m times in
\* order and its last frame e times; a one-frame cycle becomes that frame e
\* times; pause(1, 1) changes nothing.
C11_Paused(before, after, e, m) ==
    /\ Len(after) = Len(before)
    /\ \A c \in DOMAIN before :
          LET L == Len(before[c])
              n == IF L = 1 THEN e ELSE 2 * e + (L - 2) * m
          IN  /\ Len(after[c]) = n
              /\ \A k \in 1..n :
                    after[c][k] = before[c][IF k <= e THEN 1
                                           ELSE IF k > e + (L - 2) * m THEN L
                                           ELSE 2 + ((k - e - 1) \div m)]

C11_PauseRepeats ==
    [][\A cmd \in CommandCalls :
          (/\ cmd[1] = "pause" /\ Len(cmd[2]) = 2
           /\ cmd[2][1] >= 1 /\ cmd[2][2] >= 1
           /\ ApplyCommand(cmd)) =>
              /\ applied' = Append(applied, cmd)
              /\ C11_Paused(cmd_spec.data, cmd_spec'.data, cmd[2][1], cmd[2][2])
              /\ cmd[2] = <<1, 1>> => cmd_spec'.data = cmd_spec.data]_vars

\* a four-frame cycle paused with 2 and 3: ten frames, and one-frame cycles
\* paused with 2 and 3: two frames each
C11_Witness ==
    \/ /\ applied = <<Cmd("reshape", <<5>>), Cmd("pause", <<2, 3>>)>>
       /\ Len(cmd_spec.data) = 1
       /\ Len(cmd_spec.data[1]) = 10
       /\ cmd_spec.data[1][3] = cmd_spec.data[1][5]
       /\ cmd_spec.data[1][5] # cmd_spec.data[1][6]
    \/ /\ applied = <<Cmd("reshape", <<1>>), Cmd("pause", <<2, 3>>)>>
       /\ Len(cmd_spec.data) = 4
       /\ \A c \in 1..4 : Len(cmd_spec.data[c]) = 2

\* C12: pause repeats the edges 6 times and the middle once only when the
\* count is omitted; a count below 1 that is given, 0 included, counts as 1, so
\* pause(0, 0) and pause(-3, -3) act as pause(1, 1).
C12_Count(arg, default) == IF arg = <<>> THEN default ELSE Max(1, arg[1])

C12_PauseFloor ==
    [][\A cmd \in CommandCalls :
          (cmd[1] = "pause" /\ ApplyCommand(cmd)) =>
              /\ applied' = Append(applied, cmd)
              /\ C11_Paused(cmd_spec.data, cmd_spec'.data,
                            C12_Count(Arg(cmd[2], 1), 6), C12_Count(Arg(cmd[2], 2), 1))]_vars

\* C13: on rectangular data (every cycle has the same number of frames, at
\* least one cycle and one frame) transpose makes new cycle j's frame i the old
\* cycle i's frame j, and transposing the result gives the first data back.
C13_Rectangular(data) ==
    /\ data # <<>>
    /\ data[1] # <<>>
    /\ \A c \in DOMAIN data : Len(data[c]) = Len(data[1])

C13_TransposeInvolution ==
    [][(C13_Rectangular(cmd_spec.data) /\ ApplyCommand(Cmd("transpose", <<>>))) =>
          /\ applied' = Append(applied, Cmd("transpose", <<>>))
          /\ Len(cmd_spec'.data) = Len(cmd_spec.data[1])
          /\ \A j \in DOMAIN cmd_spec'.data :
                /\ Len(cmd_spec'.data[j]) = Len(cmd_spec.data)
                /\ \A i \in DOMAIN cmd_spec.data :
                      cmd_spec'.data[j][i] = cmd_spec.data[i][j]
          /\ call_command(cmd_spec', Cmd("transpose", <<>>)).spec.data = cmd_spec.data]_vars

\* two cycles of two different frames transposed, and transposed again
C13_Witness ==
    /\ applied = <<Cmd("transpose", <<>>), Cmd("transpose", <<>>)>>
    /\ Len(cmd_spec.data) = 2
    /\ Len(cmd_spec.data[1]) = 2
    /\ cmd_spec.data[1][2] # cmd_spec.data[2][1]
    /\ cmd_spec.data = call_command(call_command(cmd_spec, Cmd("transpose", <<>>)).spec,
                                    Cmd("transpose", <<>>)).spec.data

\* C14: once animate() has hidden the cursor, every way out of its loop shows
\* it again: CTRL+C is swallowed and animate() returns, any other failure of a
\* pull or a print is raised to the caller with the cursor shown, and no call
\* that hid the cursor has ended with it hidden.
C14_Hid == \E k \in DOMAIN console.written : console.written[k] = "?25l"

C14_CursorRestored ==
    /\ (console.last \notin TerminalCalls /\ console.pc # "loop" /\ C14_Hid) =>
           /\ console.cursor = "shown"
           /\ console.written[Len(console.written)] = "?25h"
    /\ console.last = "KeyboardInterrupt" =>
           /\ console.pc = "returned"
           /\ raised = "none"
    /\ console.last \in {"OSError", "IndexError"} =>
           /\ console.pc = "raised"
           /\ raised = console.last
           /\ console.cursor = "shown"

\* a print failed after a frame was shown: the error is out, the cursor is back
C14_Witness ==
    /\ console.last = "OSError"
    /\ raised = "OSError"
    /\ console.frame # <<>>
    /\ console.written = <<"?25l", "?25h">>
    /\ console.cursor = "shown"

\* C15: without a terminal, hide_cursor(), show_cursor() and clear_traces()
\* can be called, write nothing and raise nothing, and animate() gets past
\* hiding the cursor.
C15_NoTerminalNoOps ==
    ~console.isatty =>
        /\ console.last \in TerminalCalls => (raised = "none" /\ console.written = <<>>)
        /\ console.last = "animate" => raised # "TypeError"

\* C16: check(verbosity) clamps the level to 0..5, prints the duration and
\* the whole specs block at every level, the frame data exactly at levels 1,
\* 2, 4, 5 (with codepoints exactly at 2 and 5), and starts the animation
\* exactly at levels 3, 4, 5.
C16_Printed(what) == \E k \in DOMAIN console.printed : console.printed[k] = what

C16_CheckOutput ==
    console.last = "check" =>
        /\ console.verbosity \in 0..5
        /\ raised # "AttributeError"
        /\ \A what \in {"duration", "Specs", "length", "natural", "cycles", "strategy",
                        "frames", "total_frames"} : C16_Printed(what)
        /\ (C16_Printed("frame data") \/ C16_Printed("frame data, codepoints"))
               <=> console.verbosity \in {1, 2, 4, 5}
        /\ C16_Printed("frame data, codepoints") <=> console.verbosity \in {2, 5}
        /\ C16_Printed("Animation") <=> console.verbosity \in {3, 4, 5}

\* C17: each spinner_runner() call advances the cycle selection when it is
\* made: on a sequential runner the k-th generator returned plays cycle
\* (k-1) mod n, whichever generator is pulled first and whether or not the
\* earlier ones were ever pulled.
C17_AdvanceAtCall ==
    runner.strategy = "ordered" =>
        \A k \in DOMAIN gens :
            gens[k].state # "created" =>
                gens[k].cycle = runner.spec.data[((k - 1) % Len(runner.spec.data)) + 1]

\* C18: the metadata a runner exposes describes the frame data it plays:
\* frames[i] is the number of frames of played cycle i, total_frames their
\* sum, cycles the number of played cycles, length the width of the first
\* frame, and randomize is set exactly when the cycles are chosen at random.
C18_MetadataAgrees ==
    runner.status = "ok" =>
        /\ runner.exposed.frames = [c \in DOMAIN runner.spec.data |-> Len(runner.spec.data[c])]
        /\ runner.exposed.total_frames = Len(Flatten(runner.spec.data))
        /\ runner.exposed.cycles = Len(runner.spec.data)
        /\ runner.exposed.length = Len(runner.spec.data[1][1])
        /\ runner.exposed.randomize <=> runner.strategy = "random"

\* C19: the builder a binding step returns carries every binding of the
\* builder the step was called on: a schedule call keeps the operational
\* parameters and the commands scheduled before, and an op() call keeps the
\* scheduled commands and the operational parameters bound before.
C19_Carried(old, new) ==
    /\ Len(old) <= Len(new)
    /\ SubSeq(new, 1, Len(old)) = old

C19_BindingsCarried ==
    [][Len(builders') = Len(builders) + 1 =>
          LET new == builders'[Len(builders')]
              pre  == Get(dicts'[new.extra], pre_compiler_command)
              post == Get(dicts'[new.extra], post_compiler_command)
          IN  \A i \in DOMAIN builders :
                /\ \A cmd \in ScheduleCalls :
                      (C6_Fits(cmd) /\ Schedule(i, cmd)) =>
                          /\ new.op_params = builders[i].op_params
                          /\ C19_Carried(Scheduled(builders[i], pre_compiler_command), pre)
                          /\ C19_Carried(Scheduled(builders[i], post_compiler_command), post)
                /\ \A params \in OperationalCalls :
                      SetOperational(i, params) =>
                          /\ pre = Scheduled(builders[i], pre_compiler_command)
                          /\ post = Scheduled(builders[i], post_compiler_command)
                          /\ \A key \in DOMAIN builders[i].op_params :
                                /\ key \in DOMAIN new.op_params
                                /\ key \notin DOMAIN params =>
                                      new.op_params[key] = builders[i].op_params[key]]_vars
====
